---- MODULE Spec2Model ----
(***************************************************************************)
(* Model of the dashboards' data path (lakebase_apps/app.py and the        *)
(* near-identical contentpulse_apps/app.py): the connection pool built by  *)
(* build_pool with RotatingTokenConnection, the module-level data_cache,   *)
(* and the fetch get_iot_data / get_content_data as it is run by the       *)
(* callbacks of the Dash application.  The server handles callback         *)
(* requests on worker threads, so a fetch is modelled statement by         *)
(* statement and the fetches of different workers interleave.              *)
(*                                                                         *)
(* Dataframes are objects: a frame is named by an id, `frames` holds the   *)
(* content of each object.  Frame 0 is the pd.DataFrame() created at       *)
(* import, frame k > 0 the result of the k-th query that succeeded, and    *)
(* NewFrame the pd.DataFrame() that the fallback creates.                  *)
(*                                                                         *)
(* Leaving the `with get_connection()` block hands the connection back to  *)
(* the pool; that hand-back is modelled as not raising.                    *)
(***************************************************************************)
EXTENDS Integers, Sequences, FiniteSets

\* ------------------------------------------------------------- bounds
NumWorkers == 2      \* server threads that run callbacks concurrently
MaxCalls   == 2      \* callback invocations in one run
MaxOpens   == 2      \* calls of RotatingTokenConnection.connect in one run
MaxRows    == 1      \* rows the synced table can reach
MaxTicks   == 2      \* firings of interval-fast in one browser session
MaxDraws   == 2      \* runs of initialize_charts in one browser session

\* ------------------------------------------------ program constants
min_size == 2
max_size == 10
FastInterval  == 30     \* seconds between two firings of interval-fast
NewDataWindow == 30     \* seconds of rows that extend_timeseries calls new
TraceLimit    == 5      \* towers a time-series chart shows
TailPoints    == 100    \* points initialize_charts draws per trace
MaxPoints     == 200    \* points extendData keeps per trace

Workers == 1..NumWorkers

CallbackNames ==
    {"initialize_charts", "extend_timeseries", "update_gauge", "update_static_charts"}

\* The statement a callback thread is at.
Locations ==
    {"idle", "checkout", "waiting", "query", "store_df", "store_ts",
     "release", "except", "except_return", "returned", "raised"}

NoConn   == 0
NoFrame  == -2
NewFrame == -1
NoError  == "none"

\* What the database calls can raise.  All of them derive from Exception.
CheckoutErrors == {"PoolTimeout"}
QueryErrors    == {"DatabaseError"}
ExceptionSubclasses == {"PoolTimeout", "DatabaseError"}

\* Regions and towers that rows of the table name.  sorted() orders the
\* regions as RegionOrder does.
Regions     == {"East", "North"}
RegionOrder == <<"East", "North">>
Towers      == {"T1", "T2"}
NoRegion    == "None"

\* A Graph without a figure, and an extendData of None.
NoFigure == [kind |-> "none", region |-> NoRegion, traces |-> <<>>, value |-> {}]
NoExtend == [sent |-> FALSE, x |-> <<>>, indices |-> <<>>, max_points |-> 0]

VARIABLES
    pc,          \* worker -> location
    conn,        \* worker -> index of the connection it holds, or NoConn
    df,          \* worker -> the local df of the fetch (a frame id)
    ret,         \* worker -> the value the fetch returned (a frame id)
    exc,         \* worker -> the exception the fetch caught, or NoError
    attempts,    \* worker -> [checkouts, queries] made by the running fetch
    data_cache,  \* [df |-> frame id, timestamp |-> time]
    frames,      \* frame id -> [rows, minute]: content of the dataframe objects
    table,       \* rows in the queried table
    clock,       \* last value handed out by time.time()
    conns,       \* sequence of the physical connections opened so far, each
                 \* with its credential and whether a checkout returned it
    idle,        \* the pool's queue of idle connections (indices into conns)
    pending,     \* AddConnection tasks the pool has scheduled
    requests,    \* request ids sent to generate_database_credential, in order
    calls,       \* callback invocations so far
    executed,    \* frame ids of the queries that succeeded, in execution order
    stamped,     \* frame id -> the time.time() its fetch recorded (history)
    \* --- the telecom dashboard as one browser session sees it
    rows,            \* the rows of telcom.iot_data_synced, in insertion order
    now,             \* wall time in seconds
    last_tick,       \* time at which interval-fast fired last
    n_intervals,     \* n_intervals of interval-fast
    gauge_n,         \* the n_intervals that update_gauge has handled
    region_filter,   \* value of the region-filter dropdown (NoRegion: none)
    region_options,  \* options of the region-filter dropdown
    chart,           \* figure of chart-data-usage: [kind, region, traces]
    gauge,           \* figure of chart-gauge: [kind, value]
    payload,         \* extendData last returned for chart-data-usage
    appended,        \* rows that the payloads of earlier ticks held (history)
    seen,            \* number of table rows when the previous tick ran (history)
    draws,           \* runs of initialize_charts so far
    last_df          \* rows of the last dataframe a query of the session returned

fetchVars == <<pc, conn, df, ret, exc, attempts, data_cache, frames, table, clock,
               conns, idle, pending, requests, calls, executed, stamped>>

chartVars == <<rows, now, last_tick, n_intervals, gauge_n, region_filter, region_options,
               chart, gauge, payload, appended, seen, draws, last_df>>

vars == <<fetchVars, chartVars>>

workerVars == <<pc, conn, df, ret, exc, attempts>>
poolVars   == <<conns, idle, pending, requests>>

\* ------------------------------------------------------------ helpers
Empty(f) == frames[f].rows = 0

OpenConns == {i \in 1..Len(conns) : conns[i].state # "closed"}

\* Variant of uuid4: the request id is drawn once and used for every call.
uuid4_DrawnOnce == IF requests = <<>> THEN 1 ELSE requests[1]

\* uuid.uuid4(): a request id that no earlier call has produced.
uuid4 == Len(requests) + 1

\* w.database.generate_database_credential(request_id=rid, ...).token after
\* the request has been appended to `reqs`: the credential service answers a
\* request id it has seen before with the credential it issued for it.
generate_database_credential(reqs, rid) ==
    CHOOSE t \in 1..Len(reqs) :
        /\ reqs[t] = rid
        /\ \A u \in 1..(t - 1) : reqs[u] # rid

\* Variant of Catches: the handler is written `except psycopg.Error`, which
\* the pool's errors derive from and the query wrapper's DatabaseError does not.
Catches_PsycopgOnly(e) == e \in {"PoolTimeout"}

\* except Exception: which raised errors the handler of the fetch catches.
Catches(e) == e \in ExceptionSubclasses

\* Variant of FetchEntry: a cache that has been filled is served without a
\* database call.
FetchEntry_CacheFirst(p) ==
    IF data_cache.timestamp > 0 THEN "except_return" ELSE "checkout"

\* Where the body of the fetch starts: the try block opens with the checkout.
FetchEntry(p) == "checkout"

\* The browser session before the page has loaded: no figure, nothing selected
\* in the dropdown, an empty table.
ChartInit ==
    /\ rows = <<>>
    /\ now = 0
    /\ last_tick = 0
    /\ n_intervals = 0
    /\ gauge_n = 0
    /\ region_filter = NoRegion
    /\ region_options = <<>>
    /\ chart = NoFigure
    /\ gauge = NoFigure
    /\ payload = NoExtend
    /\ appended = {}
    /\ seen = 0
    /\ draws = 0
    /\ last_df = <<>>

Init ==
    /\ ChartInit
    /\ pc = [p \in Workers |-> "idle"]
    /\ conn = [p \in Workers |-> NoConn]
    /\ df = [p \in Workers |-> NoFrame]
    /\ ret = [p \in Workers |-> NoFrame]
    /\ exc = [p \in Workers |-> NoError]
    /\ attempts = [p \in Workers |-> [checkouts |-> 0, queries |-> 0]]
    /\ data_cache = [df |-> 0, timestamp |-> 0]
    /\ frames = [f \in {NewFrame, 0} |-> [rows |-> 0, minute |-> FALSE]]
    /\ table = 0
    /\ clock = 0
    /\ conns = <<>>
    /\ idle = <<>>
    /\ pending = min_size
    /\ requests = <<>>
    /\ calls = 0
    /\ executed = <<>>
    /\ stamped = [f \in {0} |-> 0]

\* ---------------------------------------------------------------- pool
\* A pool worker runs an AddConnection task: RotatingTokenConnection.connect
\* draws a request id, asks for a credential and opens the connection with the
\* token as password.  When the credential call or the connect fails the pool
\* keeps the task and tries again later.
connect ==
    /\ pending > 0
    /\ Len(requests) < MaxOpens
    /\ LET rid  == uuid4
           reqs == Append(requests, rid)
           tok  == generate_database_credential(reqs, rid)
       IN  /\ requests' = reqs
           /\ \E opened \in BOOLEAN :
                IF opened
                THEN /\ conns' = Append(conns, [request_id |-> rid, token |-> tok,
                                                state |-> "open", returned |-> FALSE])
                     /\ idle' = Append(idle, Len(conns) + 1)
                     /\ pending' = pending - 1
                ELSE UNCHANGED <<conns, idle, pending>>
    /\ UNCHANGED <<workerVars, data_cache, frames, table, clock, calls, executed, stamped>>
    /\ UNCHANGED chartVars

\* The pool takes a connection back (putconn): a healthy one joins the idle
\* queue, a broken one is closed and a replacement scheduled.
putconn(i, keep) ==
    /\ conns' = [conns EXCEPT ![i].state = IF keep THEN "open" ELSE "closed",
                              ![i].returned = TRUE]
    /\ idle' = IF keep THEN Append(idle, i) ELSE idle
    /\ pending' = IF keep THEN pending ELSE pending + 1

\* -------------------------------------------------------------- callbacks
\* The browser fires a callback (page load, region change, interval tick) and
\* a free server thread starts it; each callback begins with the fetch.  Which
\* callback it is shows only in what it does with the frame it fetched, so
\* the name is bound where the callback finishes.
Invoke(p) ==
    /\ pc[p] = "idle"
    /\ calls < MaxCalls
    /\ \A q \in Workers : q < p => pc[q] # "idle"
    /\ calls' = calls + 1
    /\ pc' = [pc EXCEPT ![p] = FetchEntry(p)]
    /\ UNCHANGED <<conn, df, ret, exc, attempts, data_cache, frames, table, clock,
                   poolVars, executed, stamped>>
    /\ UNCHANGED chartVars

\* ------------------------------------------------------------ the fetch
\* The pool hands out connection i as it is: the connection keeps the session
\* it was opened with, and RotatingTokenConnection.connect is not called.
getconn(i) == conns

\* get_connection(): connection_pool.connection() hands out the connection at
\* the head of the idle queue; with none idle the caller waits, and the pool
\* schedules one more connection unless it is already opening one or is full.
Checkout(p) ==
    /\ pc[p] = "checkout"
    /\ attempts' = [attempts EXCEPT ![p].checkouts = @ + 1]
    /\ IF idle # <<>>
       THEN /\ conn' = [conn EXCEPT ![p] = Head(idle)]
            /\ conns' = getconn(Head(idle))
            /\ idle' = Tail(idle)
            /\ pc' = [pc EXCEPT ![p] = "query"]
            /\ UNCHANGED pending
       ELSE /\ pending' = IF pending = 0 /\ Cardinality(OpenConns) < max_size
                          THEN 1 ELSE pending
            /\ pc' = [pc EXCEPT ![p] = "waiting"]
            /\ UNCHANGED <<idle, conn, conns>>
    /\ UNCHANGED <<df, ret, exc, data_cache, frames, table, clock,
                   requests, calls, executed, stamped>>
    /\ UNCHANGED chartVars

\* A waiting caller is given a connection as soon as one is idle.
CheckoutGranted(p) ==
    /\ pc[p] = "waiting"
    /\ idle # <<>>
    /\ conn' = [conn EXCEPT ![p] = Head(idle)]
    /\ conns' = getconn(Head(idle))
    /\ idle' = Tail(idle)
    /\ pc' = [pc EXCEPT ![p] = "query"]
    /\ UNCHANGED <<df, ret, exc, attempts, data_cache, frames, table, clock,
                   pending, requests, calls, executed, stamped>>
    /\ UNCHANGED chartVars

\* Variant of Handler: a failed call is tried again.
Handler_Retry(e) == "checkout"

\* Where an exception raised inside the try block takes the fetch.
Handler(e) == IF Catches(e) THEN "except" ELSE "raised"

\* No connection became idle before the pool's timeout: the checkout raises.
CheckoutFails(p) ==
    /\ pc[p] = "waiting"
    /\ idle = <<>>
    /\ \E e \in CheckoutErrors :
          /\ exc' = [exc EXCEPT ![p] = e]
          /\ pc' = [pc EXCEPT ![p] = Handler(e)]
    /\ UNCHANGED <<conn, df, ret, attempts, data_cache, frames, table, clock,
                   poolVars, calls, executed, stamped>>
    /\ UNCHANGED chartVars

\* df = pd.read_sql(query, conn) returns: a new dataframe holding the rows of
\* the table as they are now.
Query(p) ==
    /\ pc[p] = "query"
    /\ attempts' = [attempts EXCEPT ![p].queries = @ + 1]
    /\ LET f == Len(executed) + 1
       IN  /\ frames' = [g \in DOMAIN frames \cup {f} |->
                           IF g = f THEN [rows |-> table, minute |-> FALSE]
                           ELSE frames[g]]
           /\ df' = [df EXCEPT ![p] = f]
           /\ executed' = Append(executed, f)
    /\ pc' = [pc EXCEPT ![p] = "store_df"]
    /\ UNCHANGED <<conn, ret, exc, data_cache, table, clock, poolVars, calls,
                   stamped>>
    /\ UNCHANGED chartVars

\* pd.read_sql raises: the with block is left with the exception, which hands
\* the connection back to the pool, and the except clause takes over.
QueryFails(p) ==
    /\ pc[p] = "query"
    /\ attempts' = [attempts EXCEPT ![p].queries = @ + 1]
    /\ \E e \in QueryErrors :
          /\ exc' = [exc EXCEPT ![p] = e]
          /\ pc' = [pc EXCEPT ![p] = Handler(e)]
    /\ \E keep \in BOOLEAN : putconn(conn[p], keep)
    /\ conn' = [conn EXCEPT ![p] = NoConn]
    /\ UNCHANGED <<df, ret, data_cache, frames, table, clock, requests, calls,
                   executed, stamped>>
    /\ UNCHANGED chartVars

\* Variant of StoredFrame: the cache is filled once and then kept.
StoredFrame_FillOnce(p) == IF data_cache.df = 0 THEN df[p] ELSE data_cache.df

\* The frame that `data_cache['df'] = df` puts into the cache.
StoredFrame(p) == df[p]

\* data_cache['df'] = df
StoreDf(p) ==
    /\ pc[p] = "store_df"
    /\ data_cache' = [data_cache EXCEPT !.df = StoredFrame(p)]
    /\ pc' = [pc EXCEPT ![p] = "store_ts"]
    /\ UNCHANGED <<conn, df, ret, exc, attempts, frames, table, clock, poolVars,
                   calls, executed, stamped>>
    /\ UNCHANGED chartVars

\* data_cache['timestamp'] = time.time()
StoreTimestamp(p) ==
    /\ pc[p] = "store_ts"
    /\ clock' = clock + 1
    /\ data_cache' = [data_cache EXCEPT !.timestamp = clock']
    /\ stamped' = [f \in DOMAIN stamped \cup {df[p]} |->
                      IF f = df[p] THEN clock' ELSE stamped[f]]
    /\ pc' = [pc EXCEPT ![p] = "release"]
    /\ UNCHANGED <<conn, df, ret, exc, attempts, frames, table, poolVars, calls,
                   executed>>
    /\ UNCHANGED chartVars

\* return df: leaves the with block, which hands the connection back.
ReturnDf(p) ==
    /\ pc[p] = "release"
    /\ putconn(conn[p], TRUE)
    /\ conn' = [conn EXCEPT ![p] = NoConn]
    /\ ret' = [ret EXCEPT ![p] = df[p]]
    /\ pc' = [pc EXCEPT ![p] = "returned"]
    /\ UNCHANGED <<df, exc, attempts, data_cache, frames, table, clock, requests,
                   calls, executed, stamped>>
    /\ UNCHANGED chartVars

\* Variant of CacheAfterFailure: a failure marks the cache as never fetched.
CacheAfterFailure_Invalidate == [data_cache EXCEPT !.timestamp = 0]

\* The cache as the except clause leaves it: the clause assigns nothing.
CacheAfterFailure == data_cache

\* Variant of EmptyResult: the fallback returns None.
EmptyResult_None == NoFrame

\* return pd.DataFrame(): the value returned when the cached frame is empty.
EmptyResult == NewFrame

\* Variant of CachedFrame: the fallback always builds a new empty frame.
CachedFrame_Fresh == NewFrame

\* return data_cache['df']: the value returned when the cached frame has rows.
CachedFrame == data_cache.df

\* except Exception: print the error, then `if not data_cache['df'].empty`.
\* With an empty cached frame the fetch returns a new pd.DataFrame().
ExceptCheck(p) ==
    /\ pc[p] = "except"
    /\ IF ~Empty(data_cache.df)
       THEN /\ pc' = [pc EXCEPT ![p] = "except_return"]
            /\ UNCHANGED ret
       ELSE /\ ret' = [ret EXCEPT ![p] = EmptyResult]
            /\ pc' = [pc EXCEPT ![p] = "returned"]
    /\ data_cache' = CacheAfterFailure
    /\ UNCHANGED <<conn, df, exc, attempts, frames, table, clock,
                   poolVars, calls, executed, stamped>>
    /\ UNCHANGED chartVars

\* return data_cache['df']: the second read of the cache.
ExceptReturn(p) ==
    /\ pc[p] = "except_return"
    /\ ret' = [ret EXCEPT ![p] = CachedFrame]
    /\ pc' = [pc EXCEPT ![p] = "returned"]
    /\ data_cache' = CacheAfterFailure
    /\ UNCHANGED <<conn, df, exc, attempts, frames, table, clock,
                   poolVars, calls, executed, stamped>>
    /\ UNCHANGED chartVars

\* Callbacks that assign a column to the dataframe they fetched:
\* update_static_charts sets df['minute'] (update_time_series does the same in
\* the content dashboard).  The others only read it.
AssignsColumn(c) == c = "update_static_charts"

\* The rest of the callback: an empty frame makes it return at once; otherwise
\* it builds its outputs from the frame and the thread is free again.
CallbackReturns(p, c) ==
    /\ pc[p] = "returned"
    /\ frames' = IF ~Empty(ret[p]) /\ AssignsColumn(c)
                 THEN [frames EXCEPT ![ret[p]].minute = TRUE]
                 ELSE frames
    /\ pc' = [pc EXCEPT ![p] = "idle"]
    /\ df' = [df EXCEPT ![p] = NoFrame]
    /\ ret' = [ret EXCEPT ![p] = NoFrame]
    /\ exc' = [exc EXCEPT ![p] = NoError]
    /\ attempts' = [attempts EXCEPT ![p] = [checkouts |-> 0, queries |-> 0]]
    /\ UNCHANGED <<conn, data_cache, table, clock, poolVars, calls, executed, stamped>>
    /\ UNCHANGED chartVars

\* ------------------------------------------------------------ database
\* The synced table receives a row.
TableInsert ==
    /\ table < MaxRows
    /\ table' = table + 1
    /\ UNCHANGED <<workerVars, data_cache, frames, clock, poolVars, calls, executed, stamped>>
    /\ UNCHANGED chartVars

Next ==
    \/ connect
    \/ TableInsert
    \/ \E p \in Workers : Invoke(p)
    \/ \E p \in Workers : Checkout(p)
    \/ \E p \in Workers : CheckoutGranted(p)
    \/ \E p \in Workers : CheckoutFails(p)
    \/ \E p \in Workers : Query(p)
    \/ \E p \in Workers : QueryFails(p)
    \/ \E p \in Workers : StoreDf(p)
    \/ \E p \in Workers : StoreTimestamp(p)
    \/ \E p \in Workers : ReturnDf(p)
    \/ \E p \in Workers : ExceptCheck(p)
    \/ \E p \in Workers : ExceptReturn(p)
    \/ \E p \in Workers, c \in CallbackNames : CallbackReturns(p, c)

Spec == Init /\ [][Next]_vars

\* ------------------------------------------------------ the dashboard
\* A dataframe of the dashboard is the sequence of the table rows it holds,
\* each named by its position in rows.
Min(a, b) == IF a < b THEN a ELSE b
Max(a, b) == IF a > b THEN a ELSE b
Range(s) == {s[i] : i \in 1..Len(s)}

\* SELECT ... ORDER BY timestamp DESC over a set of rows.
RECURSIVE OrderByTimestampDesc(_)
OrderByTimestampDesc(S) ==
    IF S = {}
    THEN <<>>
    ELSE LET m == CHOOSE i \in S : \A j \in S : rows[j].timestamp <= rows[i].timestamp
         IN  <<m>> \o OrderByTimestampDesc(S \ {m})

\* .sort_values('timestamp') of the rows S.
RECURSIVE sort_values(_)
sort_values(S) ==
    IF S = {}
    THEN <<>>
    ELSE LET m == CHOOSE i \in S : \A j \in S : rows[i].timestamp <= rows[j].timestamp
         IN  <<m>> \o sort_values(S \ {m})

\* Series.unique(): the distinct values in the order of first appearance.
RECURSIVE unique(_)
unique(s) ==
    IF s = <<>>
    THEN <<>>
    ELSE LET r == unique(SubSeq(s, 1, Len(s) - 1))
             x == s[Len(s)]
         IN  IF x \in Range(r) THEN r ELSE Append(r, x)

head(s, n) == SubSeq(s, 1, Min(n, Len(s)))
tail(s, n) == SubSeq(s, Max(1, Len(s) - n + 1), Len(s))

tower_ids(d) == [i \in 1..Len(d) |-> rows[d[i]].tower_id]

\* sorted(df['region'].unique())
sorted(S) == SelectSeq(RegionOrder, LAMBDA r : r \in S)

\* df[df['region'] == region] if region else df
FilterRegion(d, region) ==
    IF region # NoRegion
    THEN SelectSeq(d, LAMBDA id : rows[id].region = region)
    ELSE d

\* new_data[new_data['tower_id'] == tower].sort_values('timestamp')
TowerRows(d, tower) == sort_values({id \in Range(d) : rows[id].tower_id = tower})

\* get_iot_data as a callback of the session sees it: the result of the query,
\* which it also caches, or after a failure the cached dataframe (an empty one
\* when nothing is cached).
get_iot_data(ok) == IF ok THEN OrderByTimestampDesc(DOMAIN rows) ELSE last_df

\* The towers the time-series loops go through: the first TraceLimit of
\* df_filtered['tower_id'].unique().
ChartTowers(df_filtered) == head(unique(tower_ids(df_filtered)), TraceLimit)

\* initialize_charts(region) on the dataframe d: the data-usage figure, the
\* gauge figure and the dropdown options it returns.
initialize_charts(region, d) ==
    LET regions     == sorted({rows[id].region : id \in Range(d)})
        reg         == IF region = NoRegion /\ regions # <<>> THEN regions[1] ELSE region
        df_filtered == FilterRegion(d, reg)
        towers      == ChartTowers(df_filtered)
    IN  IF d = <<>>
        THEN [chart   |-> [NoFigure EXCEPT !.kind = "empty"],
              gauge   |-> [NoFigure EXCEPT !.kind = "empty"],
              options |-> regions]
        ELSE [chart   |-> [kind   |-> "scatter",
                           region |-> reg,
                           traces |-> [i \in 1..Len(towers) |->
                                         [name   |-> towers[i],
                                          points |-> tail(TowerRows(df_filtered, towers[i]),
                                                          TailPoints)]],
                           value  |-> {}],
              gauge   |-> [kind |-> "indicator", region |-> NoRegion, traces |-> <<>>,
                           value |-> Range(df_filtered)],
              options |-> regions]

\* The rows extend_timeseries calls new: those within NewDataWindow of the
\* latest timestamp of df_filtered.
NewData(df_filtered) ==
    IF df_filtered = <<>>
    THEN <<>>
    ELSE LET latest_time == CHOOSE m \in {rows[id].timestamp : id \in Range(df_filtered)} :
                                \A id \in Range(df_filtered) : rows[id].timestamp <= m
         IN  SelectSeq(df_filtered,
                       LAMBDA id : rows[id].timestamp >= latest_time - NewDataWindow)

\* The trace indices extend_timeseries names: list(range(5)).
TraceIndices(towers) == [i \in 1..TraceLimit |-> i - 1]

\* The region extend_timeseries and update_gauge filter by: the State value of
\* the dropdown.
TickRegion(region) == region

\* extend_timeseries(n, region) on the dataframe d: the extendData of
\* chart-data-usage.  x[i] stands for the i-th list of x and of y: the rows
\* whose timestamp and data_usage_mb the lists hold.
extend_timeseries(n, region, d) ==
    LET df_filtered == FilterRegion(d, TickRegion(region))
        new_data    == NewData(df_filtered)
        towers      == ChartTowers(df_filtered)
    IN  IF n = 0 \/ d = <<>> \/ new_data = <<>>
        THEN NoExtend
        ELSE [sent       |-> TRUE,
              x          |-> [i \in 1..Len(towers) |-> TowerRows(new_data, towers[i])],
              indices    |-> TraceIndices(towers),
              max_points |-> MaxPoints]

\* update_gauge(n, region, existing_fig) on the dataframe d.  value stands for
\* the mean of call_drop_rate over the rows it holds.
update_gauge(n, region, existing_fig, d) ==
    IF n = 0 \/ existing_fig.kind = "none" \/ d = <<>>
    THEN existing_fig
    ELSE IF existing_fig.kind = "indicator"
         THEN [existing_fig EXCEPT !.value = Range(FilterRegion(d, TickRegion(region)))]
         ELSE existing_fig

PayloadRows(e) == UNION {Range(e.x[i]) : i \in 1..Len(e.x)}

\* Dash runs initialize_charts with the dropdown value v and puts what it
\* returns into the two figures and the dropdown options.
Draw(v, ok) ==
    LET d   == get_iot_data(ok)
        out == initialize_charts(v, d)
    IN  /\ draws < MaxDraws
        /\ draws' = draws + 1
        /\ last_df' = d
        /\ chart' = out.chart
        /\ gauge' = out.gauge
        /\ region_options' = out.options
        /\ payload' = NoExtend
        /\ appended' = {}
        /\ seen' = Len(rows)
        /\ UNCHANGED <<rows, now, n_intervals, gauge_n, fetchVars>>

\* The page loads: every callback without prevent_initial_call runs, and
\* interval-fast starts counting.  extend_timeseries returns at n == 0.
PageLoad ==
    /\ draws = 0
    /\ last_tick' = now
    /\ UNCHANGED region_filter
    /\ \E ok \in BOOLEAN : Draw(region_filter, ok)

\* The user picks an option of the dropdown, or clears it.
SelectRegion(v) ==
    /\ draws > 0
    /\ v \in Range(region_options) \cup {NoRegion}
    /\ v # region_filter
    /\ region_filter' = v
    /\ UNCHANGED last_tick
    /\ \E ok \in BOOLEAN : Draw(v, ok)

\* interval-fast fires and Dash runs extend_timeseries.
FastTick ==
    /\ draws > 0
    /\ n_intervals < MaxTicks
    /\ now >= last_tick + FastInterval
    /\ n_intervals' = n_intervals + 1
    /\ last_tick' = now
    /\ \E ok \in BOOLEAN :
         LET d == get_iot_data(ok)
         IN  /\ last_df' = d
             /\ payload' = extend_timeseries(n_intervals + 1, region_filter, d)
    /\ appended' = appended \cup PayloadRows(payload)
    /\ seen' = Len(rows)
    /\ UNCHANGED <<rows, now, gauge_n, region_filter, region_options, chart, gauge,
                   draws, fetchVars>>

\* Dash runs update_gauge for a firing of interval-fast.
UpdateGauge ==
    /\ gauge_n < n_intervals
    /\ gauge_n' = n_intervals
    /\ \E ok \in BOOLEAN :
         LET d == get_iot_data(ok)
         IN  /\ last_df' = d
             /\ gauge' = update_gauge(n_intervals, region_filter, gauge, d)
    /\ UNCHANGED <<rows, now, last_tick, n_intervals, region_filter, region_options,
                   chart, payload, appended, seen, draws, fetchVars>>

\* The sync pipeline adds a row, stamped with the current time.
InsertRow(r, t) ==
    /\ \A i \in DOMAIN rows : rows[i].timestamp # now
    /\ rows' = Append(rows, [region |-> r, tower_id |-> t, timestamp |-> now])
    /\ UNCHANGED <<now, last_tick, n_intervals, gauge_n, region_filter, region_options,
                   chart, gauge, payload, appended, seen, draws, last_df, fetchVars>>

\* Time passes until interval-fast is due.
TimePasses ==
    /\ now < last_tick + FastInterval
    /\ now' = last_tick + FastInterval
    /\ UNCHANGED <<rows, last_tick, n_intervals, gauge_n, region_filter, region_options,
                   chart, gauge, payload, appended, seen, draws, last_df, fetchVars>>

NextCharts ==
    \/ PageLoad
    \/ \E v \in Regions \cup {NoRegion} : SelectRegion(v)
    \/ FastTick
    \/ UpdateGauge
    \/ \E r \in Regions, t \in Towers : InsertRow(r, t)
    \/ TimePasses

SpecCharts == Init /\ [][NextCharts]_vars

ChartTypeOK ==
    /\ region_filter \in Regions \cup {NoRegion}
    /\ n_intervals \in 0..MaxTicks
    /\ draws \in 0..MaxDraws
    /\ chart.kind \in {"none", "empty", "scatter"}
    /\ gauge.kind \in {"none", "empty", "indicator"}
    /\ Len(chart.traces) <= TraceLimit
    /\ Range(last_df) \subseteq DOMAIN rows

TypeOK ==
    /\ pc \in [Workers -> Locations]
    /\ \A p \in Workers : ret[p] \in DOMAIN frames \cup {NoFrame}
    /\ \A p \in Workers : df[p] \in DOMAIN frames \cup {NoFrame}
    /\ \A p \in Workers : conn[p] \in 0..Len(conns)
    /\ \A p \in Workers : exc[p] \in ExceptionSubclasses \cup {NoError}
    /\ data_cache.df \in DOMAIN frames
    /\ \A k \in 1..Len(idle) : conns[idle[k]].state = "open"
    /\ table \in 0..MaxRows

\* ------------------------------------------------------------ the claims
\* Worker p takes a step from one of the locations `from` to location `to`.
Moves(p, from, to) == pc[p] \in from /\ pc'[p] = to

FailurePath == {"except", "except_return"}

\* C1: when the database call of a fetch has failed and the cached frame has
\* rows, the fetch does not return a new empty frame; what it returns is the
\* frame data_cache['df'] holds when it reads it for the return, and the cache
\* only ever holds the frame that the latest `data_cache['df'] = df` of a
\* successful query put there.
C1_FallbackReturnsCachedFrame ==
    [][\A p \in Workers :
          /\ (pc[p] = "except" /\ pc'[p] # "except" /\ ~Empty(data_cache.df))
                => pc'[p] = "except_return"
          /\ Moves(p, {"except_return"}, "returned")
                => ret'[p] = data_cache.df /\ ret'[p] \in DOMAIN frames
          /\ data_cache'.df # data_cache.df
                => \E q \in Workers : /\ Moves(q, {"store_df"}, "store_ts")
                                      /\ df[q] \in DOMAIN frames
                                      /\ \E k \in 1..Len(executed) : executed[k] = df[q]
                                      /\ data_cache'.df = df[q]]_vars

\* C1 witness: a fetch whose query failed has returned a cached frame with rows.
C1_Witness ==
    \E p \in Workers :
        /\ pc[p] = "returned" /\ exc[p] = "DatabaseError"
        /\ ret[p] = data_cache.df /\ ret[p] > 0 /\ ~Empty(ret[p])

C3_FallbackWithoutCacheIsEmpty ==
    [][\A p \in Workers :
          (pc[p] = "except" /\ pc'[p] # "except" /\ data_cache.df = 0)
             => /\ pc'[p] = "returned"
                /\ ret'[p] \in DOMAIN frames'
                /\ frames'[ret'[p]].rows = 0]_vars

\* C3 witness: a fetch has failed and returned while the table has rows and
\* nothing has been stored in the cache.
C3_Witness ==
    \E p \in Workers :
        /\ pc[p] = "returned" /\ exc[p] # NoError
        /\ data_cache.df = 0 /\ table > 0 /\ ret[p] = NewFrame

\* C4: no exception leaves the fetch: an exception raised by the checkout or
\* by the query takes the fetch to its except clause, and from there the fetch
\* returns the cached frame or an empty frame.
C4_FetchNeverRaises ==
    [][\A p \in Workers :
          /\ pc'[p] # "raised"
          /\ exc'[p] # exc[p] /\ exc'[p] # NoError
                => pc[p] \in {"waiting", "query"} /\ pc'[p] = "except"
          /\ Moves(p, FailurePath, "returned")
                => /\ ret'[p] \in DOMAIN frames
                   /\ ret'[p] = data_cache.df \/ frames[ret'[p]].rows = 0]_vars

\* C4 witness: both kinds of failure have been caught and answered, one by a
\* failed checkout and one by a failed query.
C4_Witness ==
    \E p, q \in Workers :
        /\ pc[p] = "returned" /\ exc[p] = "PoolTimeout"
        /\ pc[q] = "returned" /\ exc[q] = "DatabaseError"

\* C5: a fetch whose checkout or query fails has no frame of its own and
\* writes nothing: each of its steps from the failure on leaves both
\* data_cache['df'] and data_cache['timestamp'] as they are.
C5_FailureLeavesCache ==
    [][\A p \in Workers :
          /\ (exc'[p] # NoError /\ pc'[p] # pc[p]) => data_cache' = data_cache
          /\ exc'[p] # NoError => df'[p] = NoFrame]_vars

\* C5 witness: a failed fetch has returned while the cache holds a stored
\* result with its timestamp.
C5_Witness ==
    \E p \in Workers :
        /\ pc[p] = "returned" /\ exc[p] # NoError
        /\ data_cache.df > 0 /\ data_cache.timestamp > 0

\* C6: every fetch starts with the live database call, and a fetch returns
\* anything but the frame of its own successful query only after its own
\* live call has been made and has failed.
C6_CacheOnlyAsFallback ==
    \A p \in Workers :
        /\ pc[p] \notin {"idle", "checkout"} => attempts[p].checkouts >= 1
        /\ pc[p] = "returned"
              => \/ exc[p] = NoError /\ attempts[p].queries = 1 /\ ret[p] = df[p]
                 \/ exc[p] \in QueryErrors /\ attempts[p].queries = 1
                 \/ exc[p] \in CheckoutErrors /\ attempts[p].queries = 0

\* C6 witness: a fetch is running its live query although the cache was
\* filled by the latest time.time() call and holds rows.
C6_Witness ==
    \E p \in Workers :
        /\ pc[p] = "store_df"
        /\ data_cache.timestamp = clock /\ clock > 0 /\ ~Empty(data_cache.df)

\* C7: one callback invocation checks out at most one connection and issues
\* at most one query; once the call has failed the fetch only runs its except
\* clause and returns.
C7_AtMostOneAttempt ==
    \A p \in Workers :
        /\ attempts[p].checkouts <= 1
        /\ attempts[p].queries <= 1
        /\ exc[p] # NoError => pc[p] \in FailurePath \cup {"returned"}

\* C7 witness: a fetch has returned after a failed query, having made one
\* checkout and one query.
C7_Witness ==
    \E p \in Workers :
        /\ pc[p] = "returned" /\ exc[p] \in QueryErrors
        /\ attempts[p] = [checkouts |-> 1, queries |-> 1]
\* C8: whenever no fetch is between its two cache writes, the cached
\* timestamp is the time recorded by the fetch whose frame the cache holds
\* (0 while it holds the frame created at import).
C8_TimestampOfCachedFrame ==
    (\A p \in Workers : pc[p] # "store_ts")
        => /\ data_cache.df \in DOMAIN stamped
           /\ data_cache.timestamp = stamped[data_cache.df]

\* C9: when every callback invoked so far has finished and the query of each
\* of them succeeded, the cache holds the frame of the query executed last.
C9_CacheHoldsLastQuery ==
    ( /\ \A p \in Workers : pc[p] = "idle"
      /\ calls > 0
      /\ Len(executed) = calls )
        => data_cache.df = executed[Len(executed)]

\* C10: every connection the pool has opened carries the token that the
\* credential service issued for the request id drawn in that same connect
\* call, and no request id and no token serves two calls of connect.
C10_OneCredentialPerConnection ==
    /\ \A i \in 1..Len(conns) :
          /\ conns[i].token \in 1..Len(requests)
          /\ requests[conns[i].token] = conns[i].request_id
    /\ \A i, j \in 1..Len(conns) :
          i # j => /\ conns[i].token # conns[j].token
                   /\ conns[i].request_id # conns[j].request_id
    /\ \A a, b \in 1..Len(requests) : a # b => requests[a] # requests[b]

\* C10 witness: the pool has opened a second connection after closing a
\* broken one.
C10_Witness ==
    /\ Len(conns) = 2
    /\ \E i \in 1..Len(conns) : conns[i].state = "closed"
\* C11: every connection a fetch holds was opened, and its token generated,
\* for this checkout: no earlier checkout has held it and returned it.
C11_TokenPerCheckout ==
    \A p \in Workers :
        conn[p] # NoConn => ~conns[conn[p]].returned
\* C13: the frame that data_cache['df'] holds has the content its query
\* returned: no callback has assigned a column to it since it was stored.
C13_CachedFrameUnmodified ==
    frames[data_cache.df].minute = FALSE

\* A step in which interval-fast fires and extend_timeseries runs.
TickStep == n_intervals' = n_intervals + 1

\* C14: the extendData that a fast tick returns holds no row that the
\* extendData of an earlier tick for the same figure held, and when no row has
\* arrived since the previous tick it is None.
C14_TickAppendsOnlyNewRows ==
    [][TickStep =>
         /\ PayloadRows(payload') \cap (appended \cup PayloadRows(payload)) = {}
         /\ (n_intervals >= 1 /\ Len(rows) = seen => ~payload'.sent)]_vars

\* C15: initialize_charts runs at most once in a browser session.
C15_InitializeChartsRunsOnce ==
    draws <= 1

\* C16: while the dropdown holds the region the figure was drawn for, series i
\* of the extendData holds only rows of the tower that trace i of the figure
\* initialize_charts drew is named after.
C16_SeriesMatchTraces ==
    payload.sent /\ region_filter = chart.region =>
        \A i \in 1..Min(Len(payload.x), Len(chart.traces)) :
            \A id \in Range(payload.x[i]) :
                rows[id].tower_id = chart.traces[i].name

\* C17: the extendData of a tick has as many series as it names trace
\* indices, and the figure initialize_charts draws from the dataframe of that
\* tick has a trace at every index named.
C17_IndicesMatchSeries ==
    [][TickStep /\ payload'.sent =>
         LET fig == initialize_charts(region_filter, last_df').chart
         IN  /\ Len(payload'.x) = Len(payload'.indices)
             /\ \A k \in Range(payload'.indices) : k + 1 <= Len(fig.traces)]_vars

\* C18: the rows in the extendData of a tick and the rows behind the gauge
\* value all belong to the region the data-usage figure was drawn for.
C18_TicksFilterLikeDraw ==
    chart.kind = "scatter" =>
        /\ \A id \in PayloadRows(payload) : rows[id].region = chart.region
        /\ gauge.kind = "indicator" =>
              \A id \in gauge.value : rows[id].region = chart.region

====
